---- MODULE Spec2Model ----
(***************************************************************************)
(* A model of sslko (OzzyCzech/sslko): fetching a peer certificate over    *)
(* TLS (getCertificate), matching a host against it (verifyHostname) and   *)
(* evaluating it into a report (getCertificateInfo).                       *)
(*                                                                         *)
(* JavaScript strings are sequences of one-character strings, so that      *)
(* split, startsWith, substring, join, trim and the regular expressions    *)
(* are computed character by character, as the code computes them.         *)
(***************************************************************************)
EXTENDS Integers, Sequences, FiniteSets, TLC

VARIABLES
    host,        \* the host argument of the call
    cert,        \* the peer's raw certificate (PeerCertificate), as Node reports it
    sanEntries,  \* the peer certificate's SAN extension before Node prints it
    matched,     \* <<verifyHostname's return value>>, <<>> before it returns
    caller,      \* the entry point that was called, "none" before the call
    options,     \* the options object the caller passed
    connectWith, \* the options handed to tls.connect (port, timeout, ...)
    socket,      \* the TLS socket of the call
    timer,       \* TRUE while the socket's timeout callback is registered
    promise,     \* the promise getCertificate builds around the socket
    events,      \* the socket events emitted so far, in order
    settles,     \* how many times the promise changed its outcome
    connects,    \* how many times tls.connect was called
    locals,      \* getCertificate's destructured timeout, detailed and port
    socketError, \* the error the socket emitted with "error", NoObject before
    clock,       \* the instants Date.now() returned to the facade, in program order
    result       \* what the called entry point's own promise settled with

hostVars == <<host, cert, sanEntries, matched>>

callVars ==
    <<caller, options, connectWith, socket, timer, promise, events, settles,
      connects, locals, socketError, clock, result>>

vars ==
    <<host, cert, sanEntries, matched, caller, options, connectWith, socket,
      timer, promise, events, settles, connects, locals, socketError, clock,
      result>>

(***************************************************************************)
(* Bounds of the model.                                                    *)
(***************************************************************************)
MaxLabels == 3      \* labels of a generated host or certificate name
MaxSan == 2         \* entries of a generated subject-alternative-name list
MaxDay == 2         \* the last day of a generated validity date or clock reading

(***************************************************************************)
(* String primitives of JavaScript used by the code.                       *)
(***************************************************************************)
Absent == <<"undefined">>       \* a string property that is not there
NoObject == [undefined |-> TRUE] \* an object property that is not there
Undefined == NoObject            \* the value undefined
Omitted == [omitted |-> TRUE]    \* a key the object literal does not have
Num(n) == [num |-> n]            \* a number
Bool(b) == [bool |-> b]          \* a boolean

\* ToBoolean of a number, a boolean or undefined
TruthyValue(v) ==
    CASE v = Undefined -> FALSE
      [] v = Omitted -> FALSE
      [] "num" \in DOMAIN v -> v.num # 0
      [] "bool" \in DOMAIN v -> v.bool

\* { ...base, ...over } for one key: a key of over wins, also when undefined
Spread(base, over) == IF over = Omitted THEN base ELSE over

OptionKeys == {"port", "timeout", "detailed", "rejectUnauthorized", "rest"}

SpreadOptions(base, over) == [k \in OptionKeys |-> Spread(base[k], over[k])]

\* String.prototype.startsWith
StartsWith(s, p) == Len(s) >= Len(p) /\ SubSeq(s, 1, Len(p)) = p

\* String.prototype.substring(n): the string from index n (0-based) on
Substring(s, n) == SubSeq(s, n + 1, Len(s))

\* String.prototype.includes
Includes(s, sub) ==
    \E i \in 1..(Len(s) - Len(sub) + 1) : SubSeq(s, i, i + Len(sub) - 1) = sub

\* String.prototype.split(sep) for a non-empty separator: always at least one
\* part, ""  splits to [""]
RECURSIVE SplitAcc(_, _, _)
SplitAcc(s, sep, cur) ==
    IF s = <<>> THEN <<cur>>
    ELSE IF StartsWith(s, sep)
         THEN <<cur>> \o SplitAcc(Substring(s, Len(sep)), sep, <<>>)
         ELSE SplitAcc(Tail(s), sep, Append(cur, Head(s)))

Split(s, sep) == SplitAcc(s, sep, <<>>)

\* Array.prototype.join
RECURSIVE Join(_, _)
Join(parts, sep) ==
    IF parts = <<>> THEN <<>>
    ELSE IF Len(parts) = 1 THEN parts[1]
    ELSE parts[1] \o sep \o Join(Tail(parts), sep)

\* Array.prototype.slice(1)
Slice1(parts) == IF parts = <<>> THEN <<>> ELSE Tail(parts)

\* String.prototype.trim
RECURSIVE TrimStart(_)
TrimStart(s) == IF s # <<>> /\ Head(s) = " " THEN TrimStart(Tail(s)) ELSE s

RECURSIVE TrimEnd(_)
TrimEnd(s) ==
    IF s # <<>> /\ s[Len(s)] = " " THEN TrimEnd(SubSeq(s, 1, Len(s) - 1)) ELSE s

Trim(s) == TrimEnd(TrimStart(s))

Digits == {"0", "1", "2", "3", "4", "5", "6", "7", "8", "9"}

HexDigits == Digits \cup {"a", "b", "c", "d", "e", "f", "A", "B", "C", "D", "E", "F"}

DigitValue(c) ==
    CASE c = "0" -> 0 [] c = "1" -> 1 [] c = "2" -> 2 [] c = "3" -> 3
      [] c = "4" -> 4 [] c = "5" -> 5 [] c = "6" -> 6 [] c = "7" -> 7
      [] c = "8" -> 8 [] c = "9" -> 9

\* parseInt(part, 10) of a string of decimal digits
RECURSIVE ParseInt(_)
ParseInt(p) ==
    IF p = <<>> THEN 0
    ELSE 10 * ParseInt(SubSeq(p, 1, Len(p) - 1)) + DigitValue(p[Len(p)])

(***************************************************************************)
(* constants.ts                                                            *)
(***************************************************************************)
DNS_PREFIX == <<"D", "N", "S", ":">>

IP_ADDRESS_PREFIX == <<"I", "P", " ", "A", "d", "d", "r", "e", "s", "s", ":">>

WEAK_SIGNATURE_ALGORITHMS ==
    {"md5WithRSAEncryption", "sha1WithRSAEncryption", "md5WithRSA", "sha1WithRSA"}

WILDCARD_PREFIX == <<"*", ".">>

(***************************************************************************)
(* get-certificate-info.ts: the hostname matcher                           *)
(***************************************************************************)
\* /^(\d{1,3}\.){3}\d{1,3}$/ : four dot-separated groups of one to three digits
Ipv4Regex(ip) ==
    LET parts == Split(ip, <<".">>)
    IN  /\ Len(parts) = 4
        /\ \A i \in 1..4 :
              /\ Len(parts[i]) \in 1..3
              /\ \A j \in 1..Len(parts[i]) : parts[i][j] \in Digits

isValidIPv4(ip) ==
    IF ~Ipv4Regex(ip) THEN FALSE
    ELSE LET parts == Split(ip, <<".">>)
         IN  \A i \in 1..Len(parts) :
                LET num == ParseInt(parts[i]) IN num >= 0 /\ num <= 255

\* /^([0-9a-fA-F]{1,4}:){7}[0-9a-fA-F]{1,4}$|^::1$|^::$/
Ipv6Regex(ip) ==
    \/ LET parts == Split(ip, <<":">>)
       IN  /\ Len(parts) = 8
           /\ \A i \in 1..8 :
                 /\ Len(parts[i]) \in 1..4
                 /\ \A j \in 1..Len(parts[i]) : parts[i][j] \in HexDigits
    \/ ip = <<":", ":", "1">>
    \/ ip = <<":", ":">>

isValidIPv6(ip) == Ipv6Regex(ip) \/ Includes(ip, <<":", ":">>)

isIPAddress_NoIPv4(address) == isValidIPv6(address)

isIPAddress(address) == isValidIPv4(address) \/ isValidIPv6(address)

\* the wildcard rule widened to any suffix: host.endsWith("." + certDomain)
isHostnameMatch_Suffix(certName, h) ==
    IF certName = h THEN TRUE
    ELSE IF isIPAddress(h) THEN FALSE
    ELSE IF StartsWith(certName, WILDCARD_PREFIX)
         THEN LET certDomain == <<".">> \o Substring(certName, Len(WILDCARD_PREFIX))
              IN  /\ Len(h) >= Len(certDomain)
                  /\ SubSeq(h, Len(h) - Len(certDomain) + 1, Len(h)) = certDomain
    ELSE FALSE

isHostnameMatch(certName, h) ==
    IF certName = h THEN TRUE
    ELSE IF isIPAddress(h) THEN FALSE
    ELSE IF /\ StartsWith(certName, WILDCARD_PREFIX)
            /\ Len(Split(h, <<".">>)) = Len(Split(certName, <<".">>))
         THEN LET certDomain == Substring(certName, Len(WILDCARD_PREFIX))
                  hostDomain == Join(Slice1(Split(h, <<".">>)), <<".">>)
              IN  hostDomain = certDomain
    ELSE FALSE

\* .map(...) of verifyHostname: one typed name per recognised entry, else null
AltName(name) ==
    IF StartsWith(name, DNS_PREFIX)
    THEN [type |-> "dns", value |-> Substring(name, Len(DNS_PREFIX))]
    ELSE IF StartsWith(name, IP_ADDRESS_PREFIX)
    THEN [type |-> "ip", value |-> Trim(Substring(name, Len(IP_ADDRESS_PREFIX)))]
    ELSE [type |-> "null", value |-> <<>>]

MapAltNames(names) == [i \in 1..Len(names) |-> AltName(names[i])]

NotNull(n) == n.type # "null"

IsIpName(n) == n.type = "ip"

IsDnsName(n) == n.type = "dns"

\* a truthy string property: present and not ""
Truthy(v) == v # Absent /\ v # <<>>

SubjectCN(certificate) ==
    IF certificate.subject = NoObject THEN Absent ELSE certificate.subject.CN

\* the earlier draft of verifyHostname: DNS entries only, no IP rule
verifyHostname_DnsOnly(h, certificate) ==
    LET isMatch(certName) ==
            IF certName = h THEN TRUE
            ELSE IF /\ StartsWith(certName, WILDCARD_PREFIX)
                    /\ Len(Split(h, <<".">>)) = Len(Split(certName, <<".">>))
                 THEN Join(Slice1(Split(h, <<".">>)), <<".">>) = Substring(certName, 2)
            ELSE FALSE
        IsDnsEntry(n) == StartsWith(n, DNS_PREFIX)
    IN
    IF Truthy(SubjectCN(certificate)) /\ isMatch(SubjectCN(certificate))
    THEN TRUE
    ELSE IF Truthy(certificate.subjectaltname)
    THEN LET altNames == SelectSeq(Split(certificate.subjectaltname, <<",", " ">>), IsDnsEntry)
         IN  \E i \in 1..Len(altNames) : isMatch(Substring(altNames[i], 4))
    ELSE FALSE

verifyHostname(h, certificate) ==
    IF Truthy(SubjectCN(certificate)) /\ isHostnameMatch(SubjectCN(certificate), h)
    THEN TRUE
    ELSE IF Truthy(certificate.subjectaltname)
    THEN LET altNames ==
                 SelectSeq(MapAltNames(Split(certificate.subjectaltname, <<",", " ">>)), NotNull)
         IN  IF isIPAddress(h)
             THEN LET ips == SelectSeq(altNames, IsIpName)
                  IN  \E i \in 1..Len(ips) : ips[i].value = h
             ELSE LET dns == SelectSeq(altNames, IsDnsName)
                  IN  \E i \in 1..Len(dns) : isHostnameMatch(dns[i].value, h)
    ELSE FALSE

(***************************************************************************)
(* Dates. A timestamp is [day, ms]: whole days since the epoch and the     *)
(* milliseconds into that day, so that spans of hundreds of days stay      *)
(* within the integers of the checker; getTime() differences are taken on  *)
(* both parts and carried.                                                 *)
(***************************************************************************)
DAY_IN_MILLISECOND == 86400000

\* new Date(undefined): an Invalid Date, whose getTime() is NaN
InvalidDate == [invalid |-> TRUE]

NaN == [nan |-> TRUE]

IsInvalid(d) == "invalid" \in DOMAIN d

\* new Date(valid_to): the certificate's dates are printed to the second
DateParse(raw) ==
    IF raw = Undefined THEN InvalidDate ELSE [day |-> raw.day, ms |-> raw.sec * 1000]

\* a.getTime() - b.getTime(), as days and a remainder in 0..DAY_IN_MILLISECOND-1
TimeDiff(a, b) ==
    IF IsInvalid(a) \/ IsInvalid(b) THEN InvalidDate
    ELSE LET d == a.ms - b.ms
         IN  [day |-> (a.day - b.day) + (d \div DAY_IN_MILLISECOND),
              ms |-> d % DAY_IN_MILLISECOND]

\* a.getTime() < b.getTime()
Before(a, b) ==
    /\ ~IsInvalid(a)
    /\ ~IsInvalid(b)
    /\ a.day < b.day \/ (a.day = b.day /\ a.ms < b.ms)

\* Math.abs of a difference
AbsSpan(d) ==
    IF IsInvalid(d) THEN d
    ELSE IF d.day < 0 THEN TimeDiff([day |-> 0, ms |-> 0], d) ELSE d

\* Math.ceil(span / DAY_IN_MILLISECOND)
CeilDays(d) == IF IsInvalid(d) THEN NaN ELSE d.day + (IF d.ms > 0 THEN 1 ELSE 0)

(***************************************************************************)
(* certificate-error.ts                                                    *)
(***************************************************************************)
CertificateErrorCode ==
    {"TIMEOUT", "INVALID_PORT", "CERT_ERROR", "MISSING_CERTIFICATE",
     "UNABLE_TO_GET_ISSUER_CERT", "UNABLE_TO_GET_CRL",
     "UNABLE_TO_DECRYPT_CERT_SIGNATURE", "UNABLE_TO_DECRYPT_CRL_SIGNATURE",
     "UNABLE_TO_DECODE_ISSUER_PUBLIC_KEY", "CERT_SIGNATURE_FAILURE",
     "CRL_SIGNATURE_FAILURE", "CERT_NOT_YET_VALID", "CERT_HAS_EXPIRED",
     "CRL_NOT_YET_VALID", "CRL_HAS_EXPIRED", "ERROR_IN_CERT_NOT_BEFORE_FIELD",
     "ERROR_IN_CERT_NOT_AFTER_FIELD", "ERROR_IN_CRL_LAST_UPDATE_FIELD",
     "ERROR_IN_CRL_NEXT_UPDATE_FIELD", "OUT_OF_MEM", "DEPTH_ZERO_SELF_SIGNED_CERT",
     "SELF_SIGNED_CERT_IN_CHAIN", "UNABLE_TO_GET_ISSUER_CERT_LOCALLY",
     "UNABLE_TO_VERIFY_LEAF_SIGNATURE", "CERT_CHAIN_TOO_LONG", "CERT_REVOKED",
     "INVALID_CA", "PATH_LENGTH_EXCEEDED", "INVALID_PURPOSE", "CERT_UNTRUSTED",
     "CERT_REJECTED", "HOSTNAME_MISMATCH"}

\* new CertificateError(message, code)
CertificateError(message, code) ==
    [name |-> "CertificateError", message |-> message, code |-> code]

\* an Error thrown by Node itself; it is no instance of CertificateError
PlatformError(message, code) == [name |-> "Error", message |-> message, code |-> code]

(***************************************************************************)
(* get-certificate.ts: the fetcher. "current" is getCertificate of         *)
(* get-certificate.ts, "v1" the earlier getCertificate the first facade     *)
(* was written against.                                                    *)
(***************************************************************************)
DEFAULT_HTTPS_PORT == 443

DEFAULT_TIMEOUT_MS == 5000

MIN_PORT == 1

MAX_PORT == 65535

NoOptions == [k \in OptionKeys |-> Omitted]

DefaultOptions ==
    [NoOptions EXCEPT !.port = Num(DEFAULT_HTTPS_PORT),
                      !.timeout = Num(DEFAULT_TIMEOUT_MS),
                      !.rejectUnauthorized = Bool(FALSE),
                      !.detailed = Bool(TRUE)]

DefaultOptionsV1 ==
    [NoOptions EXCEPT !.port = Num(443), !.timeout = Num(5000),
                      !.detailed = Bool(FALSE)]

FetcherDefaults(kind) == IF kind = "current" THEN DefaultOptions ELSE DefaultOptionsV1

\* port && (port < MIN_PORT || port > MAX_PORT)
PortRejected(port) ==
    TruthyValue(port) /\ (port.num < MIN_PORT \/ port.num > MAX_PORT)

InvalidPortError(kind) ==
    IF kind = "current"
    THEN CertificateError(<<"Invalid port number. Port must be between ", MIN_PORT,
                            " and ", MAX_PORT, ".">>, "INVALID_PORT")
    ELSE CertificateError(<<"Invalid port number. Port must be between 1 and 65535.">>,
                          "INVALID_PORT")

\* the first resolve or reject decides a promise; later ones are ignored
Settle_Overwrite(p, state, value) == [state |-> state, value |-> value]

Settle(p, state, value) ==
    IF p.state = "pending" THEN [state |-> state, value |-> value] ELSE p

Settled(p) == p.state \in {"fulfilled", "rejected"}

\* the ghost count of outcome changes of the promise
CountSettle(old, new) == IF Settled(new) /\ new # old THEN 1 ELSE 0

TimeoutError_V1(kind, h, port, timeout) ==
    CertificateError(<<"Connection timed out">>, "TIMEOUT")

TimeoutError(kind, h, port, timeout) ==
    IF kind = "current"
    THEN CertificateError(<<"Failed to connect to ", h, ":", port, " within ",
                            timeout, "ms">>, "TIMEOUT")
    ELSE CertificateError(<<"Connection timed out">>, "TIMEOUT")

\* the empty-certificate rejection under the generic code
MissingCertificateError_Generic ==
    CertificateError(<<"No certificate information available">>, "CERT_ERROR")

MissingCertificateError ==
    CertificateError(<<"No certificate information available">>, "MISSING_CERTIFICATE")

EmptyCert == [empty |-> TRUE]    \* the object {} Node returns for no certificate

\* socket.getPeerCertificate(true) carries the issuer links, getPeerCertificate() none
GetPeerCertificate(peer, detailed) ==
    IF peer \in {NoObject, EmptyCert} \/ TruthyValue(detailed) THEN peer
    ELSE [k \in DOMAIN peer \ {"issuerCertificate"} |-> peer[k]]

\* the check of the earlier fetcher, which also wants the dates and the SAN
IsMissing_Strict(kind, c) ==
    \/ c = NoObject \/ c = EmptyCert
    \/ c.valid_to = NoObject \/ c.valid_from = NoObject
    \/ ~Truthy(c.subjectaltname)

\* the empty-certificate check of the secureConnect handler
IsMissing(kind, c) ==
    IF kind = "current"
    THEN c = NoObject \/ c = EmptyCert
    ELSE \/ c = NoObject \/ c = EmptyCert
         \/ c.valid_to = NoObject \/ c.valid_from = NoObject
         \/ ~Truthy(c.subjectaltname)

\* an error handler that keeps the message and always reports CERT_ERROR
WrapSocketError_Generic(error) ==
    CertificateError(
        IF error.message = Absent \/ error.message = <<>>
        THEN <<"Unknown error">> ELSE error.message,
        "CERT_ERROR")

\* error?.message || "Unknown error", error?.code || CERT_ERROR
WrapSocketError(error) ==
    CertificateError(
        IF error.message = Absent \/ error.message = <<>>
        THEN <<"Unknown error">> ELSE error.message,
        IF error.code = "" THEN "CERT_ERROR" ELSE error.code)

\* getCertificate up to its await: the options merged, the port checked, the
\* socket opened and the three listeners registered
StartFetch(kind, h, opts) ==
    LET m == SpreadOptions(FetcherDefaults(kind), opts)
        start == [state |-> "pending", value |-> NoObject]
    IN  /\ locals' = [kind |-> kind, timeout |-> m.timeout,
                      detailed |-> m.detailed, port |-> m.port]
        /\ events' = <<>>
        /\ IF PortRejected(m.port)
           THEN /\ promise' = Settle(start, "rejected", InvalidPortError(kind))
                /\ settles' = 1
                /\ UNCHANGED <<connectWith, socket, timer, connects>>
           ELSE /\ connectWith' =
                      [host |-> h, servername |-> h, port |-> m.port,
                       timeout |-> m.timeout,
                       rejectUnauthorized |-> m.rejectUnauthorized, rest |-> m.rest]
                /\ connects' = connects + 1
                /\ IF m.rest # Omitted
                   THEN \* tls.connect throws on an option it cannot use
                        /\ promise' = Settle(start, "rejected",
                               PlatformError(<<"tls.connect failed">>, "ERR_INVALID_ARG_VALUE"))
                        /\ settles' = 1
                        /\ UNCHANGED <<socket, timer>>
                   ELSE /\ promise' = start
                        /\ settles' = 0
                        /\ socket' = [state |-> "open", ended |-> FALSE, destroyed |-> FALSE]
                        /\ timer' = TruthyValue(m.timeout)

\* socket.end() left out
SocketEnd_Skipped(s) == s

\* socket.end(): the fetcher's side of the connection is closed
SocketEnd(s) == [s EXCEPT !.ended = TRUE]

\* socket.destroy(), called by the timeout callback, and by Node itself
\* before it emits "error"
SocketDestroy(s) == [s EXCEPT !.state = "closed", !.destroyed = TRUE]

\* socket.on("secureConnect", ...): read the certificate, end the socket, settle
OnSecureConnect ==
    /\ socket.state = "open"
    /\ ~socket.ended
    /\ LET c == GetPeerCertificate(cert, locals.detailed)
           p == IF IsMissing(locals.kind, c)
                THEN Settle(promise, "rejected", MissingCertificateError)
                ELSE Settle(promise, "fulfilled", c)
       IN  /\ promise' = p
           /\ settles' = settles + CountSettle(promise, p)
    /\ socket' = SocketEnd(socket)
    /\ events' = Append(events, "secureConnect")
    /\ UNCHANGED <<hostVars, caller, options, connectWith, timer, connects, locals,
                   socketError, clock, result>>

\* socket.setTimeout(timeout, ...): destroy the socket, reject with TIMEOUT.
\* The callback is registered only for a truthy timeout and runs at most once.
OnTimeout ==
    /\ timer
    /\ socket.state = "open"
    /\ LET p == Settle(promise, "rejected",
                    TimeoutError(locals.kind, host, locals.port, locals.timeout))
       IN  /\ promise' = p
           /\ settles' = settles + CountSettle(promise, p)
    /\ socket' = SocketDestroy(socket)
    /\ timer' = FALSE
    /\ events' = Append(events, "timeout")
    /\ UNCHANGED <<hostVars, caller, options, connectWith, connects, locals,
                   socketError, clock, result>>

\* what a socket reports on "error": a message and a code, either may be missing
SocketErrors ==
    { [message |-> <<"certificate has expired">>, code |-> "CERT_HAS_EXPIRED"],
      [message |-> <<"connect ECONNREFUSED">>, code |-> "ECONNREFUSED"],
      [message |-> <<"socket hang up">>, code |-> ""],
      [message |-> Absent, code |-> ""] }

\* socket.on("error", ...): reject with the wrapped error. Node emits "error"
\* from its own destroy(error) of the socket, so nothing is emitted after it.
OnError ==
    /\ socket.state = "open"
    /\ \E e \in SocketErrors :
          LET p == Settle(promise, "rejected", WrapSocketError(e))
          IN  /\ promise' = p
              /\ settles' = settles + CountSettle(promise, p)
              /\ socketError' = e
    /\ socket' = SocketDestroy(socket)
    /\ timer' = FALSE
    /\ events' = Append(events, "error")
    /\ UNCHANGED <<hostVars, caller, options, connectWith, connects, locals, clock,
                   result>>

\* the peer answers the fetcher's end(): the socket closes, its timer with it
PeerClose ==
    /\ socket.state = "open"
    /\ socket.ended
    /\ socket' = [socket EXCEPT !.state = "closed"]
    /\ timer' = FALSE
    /\ events' = Append(events, "close")
    /\ UNCHANGED <<hostVars, caller, options, connectWith, promise, settles,
                   connects, locals, socketError, clock, result>>

(***************************************************************************)
(* The first facade (getCertificateInfo around the v1 fetcher, and the     *)
(* same body as getCertificate around getCertificateWithTls).              *)
(***************************************************************************)
\* subjectaltname.replace(/DNS:|IP Address:/g, "")
RECURSIVE StripPrefixes(_)
StripPrefixes(s) ==
    IF s = <<>> THEN <<>>
    ELSE IF StartsWith(s, DNS_PREFIX) THEN StripPrefixes(Substring(s, Len(DNS_PREFIX)))
    ELSE IF StartsWith(s, IP_ADDRESS_PREFIX)
         THEN StripPrefixes(Substring(s, Len(IP_ADDRESS_PREFIX)))
    ELSE <<Head(s)>> \o StripPrefixes(Tail(s))

getDaysBetween(validFrom, validTo) == CeilDays(AbsSpan(TimeDiff(validFrom, validTo)))

getDaysRemaining(validFrom, validTo, now) ==
    LET daysRemaining == getDaysBetween(validFrom, validTo)
    IN  IF Before(validTo, now) THEN -daysRemaining ELSE daysRemaining

SubjectMetadata(s) ==
    IF s = NoObject THEN [common_name |-> Absent, organization |-> Absent]
    ELSE [common_name |-> s.CN, organization |-> s.O]

\* the try block of the first facade, on the certificate the fetcher returned
InfoV1(c, now) ==
    LET validFrom == DateParse(c.valid_from)
        validTo == DateParse(c.valid_to)
    IN  [valid |-> TRUE,
         validFor |-> IF Truthy(c.subjectaltname)
                      THEN Split(StripPrefixes(c.subjectaltname), <<",", " ">>)
                      ELSE <<>>,
         expired |-> Before(validTo, now[2]),
         subject |-> SubjectMetadata(c.subject),
         issuer |-> SubjectMetadata(c.issuer),
         valid_from |-> validFrom,
         valid_to |-> validTo,
         days_left |-> getDaysRemaining(validFrom, validTo, now[1]),
         days_total |-> getDaysBetween(validFrom, validTo)]

UnexpectedErrorMessage ==
    <<"An unexpected error occurred while retrieving the certificate.">>

\* the catch block of the first facade, with the instanceof test dropped
CatchV1_AlwaysCode(error) ==
    [valid |-> FALSE, error |-> error.message, code |-> error.code]

\* the catch block of the first facade
CatchV1(error) ==
    IF error.name = "CertificateError"
    THEN [valid |-> FALSE, error |-> error.message, code |-> error.code]
    ELSE [valid |-> FALSE, error |-> UnexpectedErrorMessage]

(***************************************************************************)
(* convert-peer-certificate.ts and the facade of get-certificate-info.ts.  *)
(* Every Date.now() is a read of the clock of its own: `now` is the        *)
(* sequence of the instants read, in program order.                        *)
(***************************************************************************)
getDaysTotal(validFrom, validTo) == CeilDays(AbsSpan(TimeDiff(validFrom, validTo)))

getDaysLeft(validTo, now) == CeilDays(TimeDiff(validTo, now))

SelfIssued == [self |-> TRUE]    \* an issuerCertificate link back to the certificate

\* certificate[key] of an object that may lack the property
Property(certificate, key) ==
    IF key \in DOMAIN certificate THEN certificate[key] ELSE Undefined

\* convertPeerCertificate without its delete: ...rest keeps the raw link
convertPeerCertificate_LinkKept(certificate, now) ==
    [validFromDate |-> DateParse(certificate.valid_from),
     validToDate |-> DateParse(certificate.valid_to),
     expired |-> Before(DateParse(certificate.valid_to), now[1]),
     daysLeft |-> getDaysLeft(DateParse(certificate.valid_to), now[2]),
     daysTotal |-> getDaysTotal(DateParse(certificate.valid_from),
                                DateParse(certificate.valid_to)),
     validFor |-> IF Truthy(certificate.subjectaltname)
                  THEN [list |-> Split(StripPrefixes(certificate.subjectaltname),
                                       <<",", " ">>)]
                  ELSE Undefined,
     subject |-> certificate.subject,
     issuer |-> certificate.issuer,
     subjectaltname |-> certificate.subjectaltname,
     signatureAlgorithm |-> Property(certificate, "signatureAlgorithm"),
     issuerCertificate |-> certificate.issuerCertificate]

\* convertPeerCertificate; now[1] is read for expired, now[2] for daysLeft.
\* Of ...rest the model keeps the names, the SAN string and, where the peer's
\* certificate object carries one, the signature algorithm.
convertPeerCertificate(certificate, now) ==
    [validFromDate |-> DateParse(certificate.valid_from),
     validToDate |-> DateParse(certificate.valid_to),
     expired |-> Before(DateParse(certificate.valid_to), now[1]),
     daysLeft |-> getDaysLeft(DateParse(certificate.valid_to), now[2]),
     daysTotal |-> getDaysTotal(DateParse(certificate.valid_from),
                                DateParse(certificate.valid_to)),
     validFor |-> IF Truthy(certificate.subjectaltname)
                  THEN [list |-> Split(StripPrefixes(certificate.subjectaltname),
                                       <<",", " ">>)]
                  ELSE Undefined,
     subject |-> certificate.subject,
     issuer |-> certificate.issuer,
     subjectaltname |-> certificate.subjectaltname,
     signatureAlgorithm |-> Property(certificate, "signatureAlgorithm")]

\* the certificate as node:crypto's X509Certificate presents it
X509Certificate(certificate) ==
    [subject |-> certificate.subject, issuer |-> certificate.issuer,
     validFrom |-> certificate.valid_from, validTo |-> certificate.valid_to]

\* fromX509Certificate of certificate-info.ts; it reads the clock once and
\* takes the span of the validity without Math.abs
fromX509Certificate(certificate, now) ==
    [valid |-> TRUE,
     subject |-> certificate.subject,
     issuer |-> certificate.issuer,
     validFrom |-> DateParse(certificate.validFrom),
     validTo |-> DateParse(certificate.validTo),
     daysLeft |-> CeilDays(TimeDiff(DateParse(certificate.validTo), now)),
     daysTotal |-> CeilDays(TimeDiff(DateParse(certificate.validTo),
                                     DateParse(certificate.validFrom)))]

\* validToDate.getTime() - Date.now() <= warningDays * 24 * 60 * 60 * 1000
isCertificateNearExpiry(validToDate, warningDays, now) ==
    LET left == TimeDiff(validToDate, now)
    IN  /\ ~IsInvalid(left)
        /\ left.day < warningDays \/ (left.day = warningDays /\ left.ms = 0)

\* a comparison of the Common Names alone, with no fallback to the whole names
isSelfSignedCertificate_NoFallback(certificate) ==
    IF certificate.subject = NoObject \/ certificate.issuer = NoObject THEN FALSE
    ELSE /\ Truthy(certificate.subject.CN)
         /\ Truthy(certificate.issuer.CN)
         /\ certificate.subject.CN = certificate.issuer.CN

isSelfSignedCertificate(certificate) ==
    IF certificate.subject = NoObject \/ certificate.issuer = NoObject THEN FALSE
    ELSE IF Truthy(certificate.subject.CN) /\ Truthy(certificate.issuer.CN)
         THEN certificate.subject.CN = certificate.issuer.CN
    ELSE certificate.subject = certificate.issuer

NoCommonNameWarning == <<"Certificate does not have a Common Name (CN)">>

NotYetValidError == <<"Certificate is not yet valid">>

ExpiredError == <<"Certificate has expired">>

NearExpiryWarning(days) == <<"Certificate expires in ", days, " days">>

HostnameError(h) ==
    <<"Hostname \"", h,
      "\" does not match the certificate's Common Name (CN) or Subject Alternative Names (SANs)">>

SelfSignedError == <<"Certificate is self-signed">>

\* the certificate an issuerCertificate link leads to
IssuerOf(certificate) ==
    IF certificate.issuerCertificate = SelfIssued THEN certificate
    ELSE certificate.issuerCertificate

HasIssuerLink(certificate) ==
    "issuerCertificate" \in DOMAIN certificate /\ certificate.issuerCertificate # NoObject

\* how many times the facade reads the clock for this certificate
ClockReads(certificate) == IF HasIssuerLink(certificate) THEN 7 ELSE 5

\* an expiry rule that also fires at the very instant of validTo
ExpiredRule_Inclusive(validToDate, now) == ~Before(now, validToDate)

\* the expiry rule: Date.now() > results.validToDate.getTime()
ExpiredRule(validToDate, now) == Before(validToDate, now)

\* a warning rule: if (cond) results.warnings.push(message)
Warn(results, cond, message) ==
    IF cond THEN [results EXCEPT !.warnings = Append(@, message)] ELSE results

\* a fatal rule that pushes its message and leaves results.valid as it was
Fatal_ValidKept(results, cond, message) ==
    IF cond THEN [results EXCEPT !.errors = Append(@, message)] ELSE results

\* a fatal rule that is skipped once an error has been found
Fatal_FirstOnly(results, cond, message) ==
    IF cond /\ results.errors = <<>>
    THEN [results EXCEPT !.valid = FALSE, !.errors = Append(@, message)]
    ELSE results

\* a fatal rule: if (cond) { results.valid = false; results.errors.push(message) }
Fatal(results, cond, message) ==
    IF cond
    THEN [results EXCEPT !.valid = FALSE, !.errors = Append(@, message)]
    ELSE results

\* the expiry rule without its assignment: expired stays as it was converted
MarkExpired_Skipped(results, cond) == results

\* results.expired = true, inside the expiry rule
MarkExpired(results, cond) ==
    [results EXCEPT !.expired = IF cond THEN TRUE ELSE @]

\* getCertificateInfo after its await, on the certificate the fetcher returned.
\* now[1..2] are read converting the certificate, the next two converting its
\* issuer when there is one, the last three by the date rules.
Evaluate(h, certificate, now) ==
    LET n == Len(now)
        converted == convertPeerCertificate(certificate, now)
        r0 == [valid |-> TRUE,
               validFromDate |-> converted.validFromDate,
               validToDate |-> converted.validToDate,
               expired |-> converted.expired,
               daysLeft |-> converted.daysLeft,
               daysTotal |-> converted.daysTotal,
               validFor |-> converted.validFor,
               subject |-> converted.subject,
               issuer |-> converted.issuer,
               subjectaltname |-> converted.subjectaltname,
               signatureAlgorithm |-> converted.signatureAlgorithm,
               errors |-> <<>>,
               warnings |-> <<>>,
               issuerCertificate |-> Undefined]
        r1 == IF HasIssuerLink(certificate)
              THEN [r0 EXCEPT !.issuerCertificate =
                        convertPeerCertificate(IssuerOf(certificate), SubSeq(now, 3, 4))]
              ELSE r0
        r2 == Warn(r1, ~Truthy(SubjectCN(certificate)), NoCommonNameWarning)
        r3 == Fatal(r2, Before(now[n - 2], r2.validFromDate), NotYetValidError)
        hasExpired == ExpiredRule(r3.validToDate, now[n - 1])
        r4 == Fatal(MarkExpired(r3, hasExpired), hasExpired, ExpiredError)
        r5 == Warn(r4, ~r4.expired /\ isCertificateNearExpiry(r4.validToDate, 30, now[n]),
                   NearExpiryWarning(r4.daysLeft))
        r6 == Fatal(r5, ~verifyHostname(h, certificate), HostnameError(h))
    IN  Fatal(r6, isSelfSignedCertificate(certificate), SelfSignedError)

\* the defaults of the facade; it always asks for the detailed certificate
InfoDefaultOptions ==
    [NoOptions EXCEPT !.port = Num(DEFAULT_HTTPS_PORT),
                      !.timeout = Num(DEFAULT_TIMEOUT_MS),
                      !.rejectUnauthorized = Bool(FALSE)]

\* the facade's options without the forced flag
InfoOptions_NotForced(opts) == SpreadOptions(InfoDefaultOptions, opts)

InfoOptions(opts) ==
    [SpreadOptions(InfoDefaultOptions, opts) EXCEPT !.detailed = Bool(TRUE)]

(***************************************************************************)
(* The calls. An async function runs to its first await in the caller's    *)
(* turn, so a call is one step up to the promise around the socket; the    *)
(* rest of the function runs in Resume* once that promise is settled.      *)
(***************************************************************************)
Idle == caller = "none"

\* getCertificate(host, options)
CallGetCertificate(h, opts) ==
    /\ Idle
    /\ caller' = "getCertificate"
    /\ host' = h
    /\ options' = opts
    /\ StartFetch("current", h, opts)
    /\ UNCHANGED <<cert, sanEntries, matched, socketError, clock, result>>

\* getCertificateInfo(host, options) of get-certificate-info.ts
CallGetCertificateInfo(h, opts) ==
    /\ Idle
    /\ caller' = "getCertificateInfo"
    /\ host' = h
    /\ options' = opts
    /\ StartFetch("current", h, InfoOptions(opts))
    /\ UNCHANGED <<cert, sanEntries, matched, socketError, clock, result>>

\* getCertificateInfo(host, options) of the first facade
CallGetCertificateInfoV1(h, opts) ==
    /\ Idle
    /\ caller' = "getCertificateInfoV1"
    /\ host' = h
    /\ options' = opts
    /\ StartFetch("v1", h, opts)
    /\ UNCHANGED <<cert, sanEntries, matched, socketError, clock, result>>

Awaited(name) == caller = name /\ Settled(promise) /\ result.state = "none"

\* return await new Promise(...): getCertificate settles as the promise did
ResumeGetCertificate ==
    /\ Awaited("getCertificate")
    /\ result' = promise
    /\ UNCHANGED <<hostVars, caller, options, connectWith, socket, timer, promise,
                   events, settles, connects, locals, socketError, clock>>

NonDecreasing(now) == \A i \in 1..(Len(now) - 1) : ~Before(now[i + 1], now[i])

\* the facade of get-certificate-info.ts has no try: a rejection of the
\* fetcher rejects the facade, a certificate is evaluated into the report
ResumeGetCertificateInfo(Clock) ==
    /\ Awaited("getCertificateInfo")
    /\ IF promise.state = "rejected"
       THEN /\ result' = [state |-> "rejected", value |-> promise.value]
            /\ UNCHANGED clock
       ELSE \E now \in [1..ClockReads(promise.value) -> Clock] :
               /\ NonDecreasing(now)
               /\ clock' = now
               /\ result' = [state |-> "fulfilled",
                             value |-> Evaluate(host, promise.value, now)]
    /\ UNCHANGED <<hostVars, caller, options, connectWith, socket, timer, promise,
                   events, settles, connects, locals, socketError>>

\* the first facade: try { ...the report } catch (error) { ...valid: false }
ResumeGetCertificateInfoV1(Clock) ==
    /\ Awaited("getCertificateInfoV1")
    /\ IF promise.state = "rejected"
       THEN /\ result' = [state |-> "fulfilled", value |-> CatchV1(promise.value)]
            /\ UNCHANGED clock
       ELSE \E now \in [1..2 -> Clock] :
               /\ NonDecreasing(now)
               /\ clock' = now
               /\ result' = [state |-> "fulfilled", value |-> InfoV1(promise.value, now)]
    /\ UNCHANGED <<hostVars, caller, options, connectWith, socket, timer, promise,
                   events, settles, connects, locals, socketError>>

(***************************************************************************)
(* Inputs of the hostname matcher.                                         *)
(***************************************************************************)
HostLabels == {<<"a">>, <<"b">>}

CertLabels == {<<"a">>, <<"*">>}

\* every dotted name of 1..MaxLabels labels
DottedNames(labels) ==
    UNION {{Join(ls, <<".">>) : ls \in [1..n -> labels]} : n \in 1..MaxLabels}

Ip1 == <<"1", ".", "1", ".", "1", ".", "1">>

Ip2 == <<"1", ".", "1", ".", "1", ".", "2">>

Ip6 == <<":", ":", "1">>

NotIp == <<"1", ".", "1", ".", "1", ".", "2", "5", "6">>

\* the hosts that are IP literals (IPv4 with octets 0..255, IPv6)
IpLiteralHosts == {Ip1, Ip2, Ip6}

DomainHosts == DottedNames(HostLabels) \cup {NotIp}

Hosts == DomainHosts \cup IpLiteralHosts

CertNames ==
    DottedNames(CertLabels)
        \cup {Ip1, Ip6, WILDCARD_PREFIX \o <<"1", ".", "1", ".", "1">>,
               WILDCARD_PREFIX \o <<"1", ".", "1", ".", "2", "5", "6">>}

Subjects == {NoObject} \cup [CN : {Absent} \cup CertNames]

\* how Node prints one entry of the SAN extension
SanPrefix(kind) ==
    CASE kind = "DNS" -> DNS_PREFIX
      [] kind = "IP" -> IP_ADDRESS_PREFIX
      [] kind = "IPsp" -> IP_ADDRESS_PREFIX \o <<" ">>
      [] kind = "URI" -> <<"U", "R", "I", ":">>

SanEntries ==
    { [kind |-> "DNS", name |-> WILDCARD_PREFIX \o <<"a">>],
      [kind |-> "DNS", name |-> <<"b", ".", "a">>],
      [kind |-> "DNS", name |-> Ip1],
      [kind |-> "DNS", name |-> WILDCARD_PREFIX \o <<"1", ".", "1", ".", "1">>],
      [kind |-> "IP", name |-> Ip1],
      [kind |-> "IPsp", name |-> Ip6],
      [kind |-> "URI", name |-> <<"b", ".", "a">>] }

SanLists(n) == UNION {[1..k -> SanEntries] : k \in 0..n}

\* the certificates offered to the matcher: every subject with at most one SAN
\* entry, and every SAN list of up to MaxSan entries under a few subjects
FewSubjects == {NoObject, [CN |-> Absent], [CN |-> <<"a", ".", "a">>]}

HostCertificates ==
    (Subjects \X SanLists(1)) \cup (FewSubjects \X SanLists(MaxSan))

\* the subjectaltname string of a list of entries; no extension, no property
FormatSan(entries) ==
    IF entries = <<>> THEN Absent
    ELSE Join([i \in 1..Len(entries) |->
                  SanPrefix(entries[i].kind) \o entries[i].name], <<",", " ">>)

(***************************************************************************)
(* SpecHost: one call of verifyHostname on a host and a certificate.       *)
(***************************************************************************)
InitHost ==
    /\ host = Absent
    /\ cert = NoObject
    /\ sanEntries = <<>>
    /\ matched = <<>>
    /\ caller = "none"
    /\ options = NoObject
    /\ connectWith = NoObject
    /\ socket = [state |-> "none", ended |-> FALSE, destroyed |-> FALSE]
    /\ timer = FALSE
    /\ promise = [state |-> "none", value |-> NoObject]
    /\ events = <<>>
    /\ settles = 0
    /\ connects = 0
    /\ locals = NoObject
    /\ socketError = NoObject
    /\ clock = <<>>
    /\ result = [state |-> "none", value |-> NoObject]

VerifyHostname ==
    /\ matched = <<>>
    /\ \E h \in Hosts, sc \in HostCertificates :
          LET c == [subject |-> sc[1], subjectaltname |-> FormatSan(sc[2])]
          IN  /\ host' = h
              /\ cert' = c
              /\ sanEntries' = sc[2]
              /\ matched' = <<verifyHostname(h, c)>>
    /\ UNCHANGED callVars

NextHost == VerifyHostname

SpecHost == InitHost /\ [][NextHost]_vars

(***************************************************************************)
(* SpecFetch: one call of getCertificate or of a facade, the socket's      *)
(* events in any order, and the rest of the called function.               *)
(***************************************************************************)
NameAA == <<"a", ".", "a">>

NameBA == <<"b", ".", "a">>

NameCA == <<"c", "a">>

Day(d) == [day |-> d, sec |-> 0]

At(d, m) == [day |-> d, ms |-> m]

Certificate(subject, issuer, validFrom, validTo, san, link) ==
    [subject |-> subject, issuer |-> issuer, valid_from |-> validFrom,
     valid_to |-> validTo, subjectaltname |-> san, issuerCertificate |-> link]

Name(cn) == [CN |-> cn, O |-> Absent]

RootCertificate ==
    Certificate(Name(NameCA), Name(NameCA), Day(0), Day(420), Absent, SelfIssued)

LeafCertificate ==
    Certificate(Name(NameAA), Name(NameCA), Day(0), Day(10),
                DNS_PREFIX \o NameAA, RootCertificate)

\* an intermediate authority, issued by the root
IntermediateCertificate ==
    Certificate(Name(NameBA), Name(NameCA), Day(0), Day(40), Absent,
                RootCertificate)

\* leaf -> intermediate -> root, as getPeerCertificate(true) links them
ChainCertificates ==
    {Certificate(Name(NameAA), Name(NameBA), Day(0), t, DNS_PREFIX \o NameAA,
                 IntermediateCertificate) : t \in {Day(10), Day(40)}}

\* a certificate object with its subject as the only populated field
SparseCertificate ==
    Certificate(Name(NameAA), NoObject, Undefined, Undefined, Absent, NoObject)

FetchCertificates ==
    {NoObject, EmptyCert, SparseCertificate, LeafCertificate,
     Certificate(Name(NameAA), Name(NameAA), Day(0), Day(10), Absent, SelfIssued)}

FetchHosts == {NameAA, NameBA}

FetchClock == {At(5, 0), At(11, 0)}

FetchOptions ==
    [port : {Omitted, Undefined, Num(-1), Num(0), Num(1), Num(8443), Num(65535),
             Num(65536)},
     timeout : {Omitted, Undefined, Num(0), Num(1)},
     detailed : {Omitted, Bool(FALSE)},
     rejectUnauthorized : {Omitted, Bool(TRUE)},
     rest : {Omitted, [ca |-> "malformed"]}]

InitFetch ==
    /\ host = Absent
    /\ cert \in FetchCertificates
    /\ sanEntries = <<>>
    /\ matched = <<>>
    /\ caller = "none"
    /\ options = NoObject
    /\ connectWith = NoObject
    /\ socket = [state |-> "none", ended |-> FALSE, destroyed |-> FALSE]
    /\ timer = FALSE
    /\ promise = [state |-> "none", value |-> NoObject]
    /\ events = <<>>
    /\ settles = 0
    /\ connects = 0
    /\ locals = NoObject
    /\ socketError = NoObject
    /\ clock = <<>>
    /\ result = [state |-> "none", value |-> NoObject]

NextFetch ==
    \/ \E h \in FetchHosts, opts \in FetchOptions : CallGetCertificate(h, opts)
    \/ \E h \in FetchHosts, opts \in FetchOptions : CallGetCertificateInfo(h, opts)
    \/ \E h \in FetchHosts, opts \in FetchOptions : CallGetCertificateInfoV1(h, opts)
    \/ OnSecureConnect
    \/ OnTimeout
    \/ OnError
    \/ PeerClose
    \/ ResumeGetCertificate
    \/ ResumeGetCertificateInfo(FetchClock)
    \/ ResumeGetCertificateInfoV1(FetchClock)

SpecFetch == InitFetch /\ [][NextFetch]_vars

\* What the runtime guarantees of SpecFetch's steps: an armed timer fires
\* while the socket stays open, and the continuation of an await runs once
\* its promise is settled. The peer owes nothing: no fairness for the
\* handshake, an error or the closing of the socket.
SpecFetchFair ==
    /\ SpecFetch
    /\ WF_vars(OnTimeout)
    /\ WF_vars(ResumeGetCertificate)

(***************************************************************************)
(* SpecEval: getCertificateInfo from the moment the fetcher has resolved   *)
(* with the peer's certificate, over many certificates and clocks.         *)
(***************************************************************************)
EvalSubjects == {NoObject, [CN |-> Absent, O |-> NameCA], Name(NameAA), Name(<<"*", ".", "a">>)}

EvalIssuers ==
    {NoObject, [CN |-> Absent, O |-> NameCA], [CN |-> Absent, O |-> NameAA],
     Name(NameAA), Name(NameCA)}

EvalSans == {Absent, DNS_PREFIX \o <<"*", ".", "a">>,
             DNS_PREFIX \o NameAA \o <<",", " ">> \o IP_ADDRESS_PREFIX \o Ip1}

\* certificates whose object names the algorithm of their signature
SignedCertificates ==
    {[subject |-> Name(NameAA), issuer |-> Name(NameCA), valid_from |-> Day(0),
      valid_to |-> Day(40), subjectaltname |-> DNS_PREFIX \o NameAA,
      issuerCertificate |-> NoObject, signatureAlgorithm |-> algorithm] :
        algorithm \in WEAK_SIGNATURE_ALGORITHMS \cup {"sha256WithRSAEncryption"}}

EvalCertificates ==
    {Certificate(s, i, f, t, san, link) :
        s \in EvalSubjects, i \in EvalIssuers, f \in {Day(0), Day(20)},
        t \in {Day(10), Day(40), Day(420)}, san \in EvalSans,
        link \in {NoObject, SelfIssued, RootCertificate}}
    \cup ChainCertificates \cup SignedCertificates

EvalHosts == {NameAA, NameBA, Ip1}

EvalClock == {At(5, 0), At(10, 0), At(10, 1)}

InitEval ==
    /\ host \in EvalHosts
    /\ cert \in EvalCertificates
    /\ sanEntries = <<>>
    /\ matched = <<>>
    /\ caller = "getCertificateInfo"
    /\ options = NoOptions
    /\ connectWith =
          [host |-> host, servername |-> host, port |-> Num(DEFAULT_HTTPS_PORT),
           timeout |-> Num(DEFAULT_TIMEOUT_MS), rejectUnauthorized |-> Bool(FALSE),
           rest |-> Omitted]
    /\ socket = [state |-> "open", ended |-> TRUE, destroyed |-> FALSE]
    /\ timer = TRUE
    /\ promise = [state |-> "fulfilled", value |-> cert]
    /\ events = <<"secureConnect">>
    /\ settles = 1
    /\ connects = 1
    /\ locals = [kind |-> "current", timeout |-> Num(DEFAULT_TIMEOUT_MS),
                 detailed |-> Bool(TRUE), port |-> Num(DEFAULT_HTTPS_PORT)]
    /\ socketError = NoObject
    /\ clock = <<>>
    /\ result = [state |-> "none", value |-> NoObject]

NextEval == ResumeGetCertificateInfo(EvalClock)

SpecEval == InitEval /\ [][NextEval]_vars

(***************************************************************************)
(* SpecConvert: the two normalizations applied to a certificate, over      *)
(* validity dates in either order and clocks around them.                  *)
(***************************************************************************)
ConvertDates == [day : 0..MaxDay, sec : {0, 1, 86399}]

ConvertClock == [day : 0..MaxDay, ms : {0, 1, 1000, 86399000}]

ConvertCertificates ==
    {Certificate(Name(NameAA), Name(NameCA), f, t, Absent, NoObject) :
        f \in ConvertDates, t \in ConvertDates}

\* a certificate of one validity with the subjectaltname of a list of entries
SanCertificate(entries) ==
    Certificate(Name(NameAA), Name(NameCA), Day(0), Day(1), FormatSan(entries),
                NoObject)

InitConvert ==
    /\ host = Absent
    /\ \/ cert \in ConvertCertificates /\ sanEntries = <<>>
       \/ \E entries \in SanLists(MaxSan) :
             cert = SanCertificate(entries) /\ sanEntries = entries
    /\ matched = <<>>
    /\ caller = "none"
    /\ options = NoObject
    /\ connectWith = NoObject
    /\ socket = [state |-> "none", ended |-> FALSE, destroyed |-> FALSE]
    /\ timer = FALSE
    /\ promise = [state |-> "none", value |-> NoObject]
    /\ events = <<>>
    /\ settles = 0
    /\ connects = 0
    /\ locals = NoObject
    /\ socketError = NoObject
    /\ clock = <<>>
    /\ result = [state |-> "none", value |-> NoObject]

\* convertPeerCertificate(certificate)
ConvertPeerCertificate ==
    /\ Idle
    /\ caller' = "convertPeerCertificate"
    /\ \E now \in [1..2 -> ConvertClock] :
          /\ NonDecreasing(now)
          /\ clock' = now
          /\ result' = [state |-> "fulfilled",
                        value |-> convertPeerCertificate(cert, now)]
    /\ UNCHANGED <<hostVars, options, connectWith, socket, timer, promise, events,
                   settles, connects, locals, socketError>>

\* fromX509Certificate(certificate)
FromX509Certificate ==
    /\ Idle
    /\ caller' = "fromX509Certificate"
    /\ \E now \in ConvertClock :
          /\ clock' = <<now>>
          /\ result' = [state |-> "fulfilled",
                        value |-> fromX509Certificate(X509Certificate(cert), now)]
    /\ UNCHANGED <<hostVars, options, connectWith, socket, timer, promise, events,
                   settles, connects, locals, socketError>>

NextConvert == ConvertPeerCertificate \/ FromX509Certificate

SpecConvert == InitConvert /\ [][NextConvert]_vars

(***************************************************************************)
(* What the certificate says, read off sanEntries and the subject rather   *)
(* than off the printed subjectaltname string.                             *)
(***************************************************************************)
DotPositions(s) == {i \in 1..Len(s) : s[i] = "."}

LabelCount(s) == Cardinality(DotPositions(s)) + 1

\* the name with its leftmost label and that label's dot removed
AfterFirstDot(s) ==
    IF DotPositions(s) = {} THEN <<>>
    ELSE LET first == CHOOSE i \in DotPositions(s) : \A j \in DotPositions(s) : i <= j
         IN  SubSeq(s, first + 1, Len(s))

IsWildcard(n) == Len(n) >= 2 /\ n[1] = "*" /\ n[2] = "."

WildDomain(w) == SubSeq(w, 3, Len(w))

OneLabelCover(w, h) ==
    LabelCount(h) = LabelCount(w) /\ AfterFirstDot(h) = WildDomain(w)

Covers(n, h) ==
    n = h \/ (h \in DomainHosts /\ IsWildcard(n) /\ OneLabelCover(n, h))

HasCN == cert.subject # NoObject /\ cert.subject.CN # Absent

\* the names a domain host is compared with: the CN and the DNS entries
DnsNamesOffered ==
    (IF HasCN THEN {cert.subject.CN} ELSE {})
        \cup {sanEntries[i].name : i \in {j \in 1..Len(sanEntries) : sanEntries[j].kind = "DNS"}}

IpNamesOffered ==
    {sanEntries[i].name :
        i \in {j \in 1..Len(sanEntries) : sanEntries[j].kind \in {"IP", "IPsp"}}}

CnCovers == HasCN /\ Covers(cert.subject.CN, host)

SanCovers ==
    IF host \in IpLiteralHosts
    THEN host \in IpNamesOffered
    ELSE \E i \in 1..Len(sanEntries) :
            sanEntries[i].kind = "DNS" /\ Covers(sanEntries[i].name, host)

IsNum(v) == "num" \in DOMAIN v

Rejected(p, code) ==
    /\ p.state = "rejected"
    /\ p.value.name = "CertificateError"
    /\ p.value.code = code

Returned(name) == caller = name /\ Settled(result)

Has(list, message) == \E i \in 1..Len(list) : list[i] = message

(***************************************************************************)
(* C1: getCertificateInfo never rejects: whatever the fetcher's outcome    *)
(* (a certificate, TIMEOUT, INVALID_PORT, MISSING_CERTIFICATE, a socket    *)
(* error), the promise it returned is fulfilled with a report.             *)
(***************************************************************************)
C1_NeverRejects ==
    (caller = "getCertificateInfo" /\ Settled(promise) /\ Settled(result))
        => result.state = "fulfilled"

(***************************************************************************)
(* C2: the socket's events race. At every moment the promise has settled   *)
(* at most once; once an event has been emitted it is settled with that    *)
(* first event's outcome (secureConnect: the certificate or                *)
(* MISSING_CERTIFICATE, timeout: TIMEOUT, error: the wrapped error), so a  *)
(* timeout that came first never leaves a certificate; getCertificate      *)
(* returns that outcome; and no step changes a settled promise.            *)
(***************************************************************************)
FirstEventOutcome ==
    CASE events[1] = "secureConnect" ->
            IF IsMissing(locals.kind, GetPeerCertificate(cert, locals.detailed))
            THEN Rejected(promise, "MISSING_CERTIFICATE")
            ELSE /\ promise.state = "fulfilled"
                 /\ promise.value = GetPeerCertificate(cert, locals.detailed)
      [] events[1] = "timeout" -> Rejected(promise, "TIMEOUT")
      [] events[1] = "error" ->
            /\ promise.state = "rejected"
            /\ \E e \in SocketErrors : promise.value = WrapSocketError(e)

C2_RaceState ==
    /\ settles <= 1
    /\ Settled(promise) <=> settles = 1
    /\ events # <<>> => Settled(promise) /\ FirstEventOutcome
    /\ Returned("getCertificate") => result = promise

C2_FirstEventWins ==
    /\ []C2_RaceState
    /\ [][Settled(promise) => promise' = promise]_vars

C2_Witness ==
    /\ Returned("getCertificate")
    /\ events = <<"secureConnect", "timeout">>
    /\ socket.destroyed
    /\ result.state = "fulfilled"
    /\ result.value = cert

C4_PortRange ==
    (caller = "getCertificate" /\ IsNum(options.port)) =>
        IF options.port.num < 1 \/ options.port.num > 65535
        THEN Rejected(promise, "INVALID_PORT") /\ connects = 0
        ELSE connects = 1 /\ connectWith.port = options.port

(***************************************************************************)
(* C5: in every report getCertificateInfo returns, valid is true exactly   *)
(* when the errors list is empty.                                          *)
(***************************************************************************)
C5_ValidIffNoErrors ==
    (Returned("getCertificateInfo") /\ result.state = "fulfilled") =>
        (result.value.valid <=> result.value.errors = <<>>)

C5_Witness ==
    /\ Returned("getCertificateInfo")
    /\ result.state = "fulfilled"
    /\ ~result.value.valid
    /\ result.value.errors = <<NotYetValidError, SelfSignedError>>
    /\ result.value.warnings # <<>>

(***************************************************************************)
(* C6: no fatal rule is skipped because another one fired: a certificate   *)
(* not yet valid at the last reading of the clock, expired at the first    *)
(* one, not covering the host, or self-signed has that rule's message in   *)
(* the report's errors, so a certificate expired and mismatched and        *)
(* self-signed has all three, in the order of the rules.                   *)
(***************************************************************************)
ExpiredAtFirstRead == Before(DateParse(cert.valid_to), clock[1])

NotYetValidAtLastRead == Before(clock[Len(clock)], DateParse(cert.valid_from))

C6_NoShortCircuit ==
    (Returned("getCertificateInfo") /\ result.state = "fulfilled") =>
        LET errors == result.value.errors
        IN  /\ NotYetValidAtLastRead => Has(errors, NotYetValidError)
            /\ ExpiredAtFirstRead => Has(errors, ExpiredError)
            /\ ~verifyHostname(host, cert) => Has(errors, HostnameError(host))
            /\ isSelfSignedCertificate(cert) => Has(errors, SelfSignedError)
            /\ (/\ ~NotYetValidAtLastRead
                /\ ExpiredAtFirstRead
                /\ ~verifyHostname(host, cert)
                /\ isSelfSignedCertificate(cert))
                  => errors = <<ExpiredError, HostnameError(host), SelfSignedError>>

C6_Witness ==
    /\ Returned("getCertificateInfo")
    /\ result.state = "fulfilled"
    /\ ExpiredAtFirstRead
    /\ ~verifyHostname(host, cert)
    /\ isSelfSignedCertificate(cert)
    /\ Len(result.value.errors) = 3

(***************************************************************************)
(* C7: a wildcard name "*.D" matches a domain host only when the host has  *)
(* as many labels as the wildcard name and the host without its leftmost   *)
(* label is D; a host with more labels, or D itself, is never matched by   *)
(* it. Stated of isHostnameMatch on every wildcard name the certificate    *)
(* offers, and of verifyHostname's result when wildcards are all it offers.*)
(***************************************************************************)
C7_WildcardOneLabel ==
    (matched # <<>> /\ host \in DomainHosts) =>
        /\ \A w \in {n \in DnsNamesOffered : IsWildcard(n)} :
              /\ isHostnameMatch(w, host) => OneLabelCover(w, host)
              /\ (host = WildDomain(w) \/ LabelCount(host) > LabelCount(w))
                    => ~isHostnameMatch(w, host)
        /\ (matched = <<TRUE>> /\ \A n \in DnsNamesOffered : IsWildcard(n))
              => \E w \in DnsNamesOffered : OneLabelCover(w, host)

C7_Witness ==
    /\ matched = <<TRUE>>
    /\ host = <<"b", ".", "a">>
    /\ ~HasCN
    /\ sanEntries = <<[kind |-> "DNS", name |-> <<"*", ".", "a">>]>>

(***************************************************************************)
(* C8: for a host that is an IP literal, verifyHostname returns true only  *)
(* when the Common Name is that very string or an IP-Address entry of the  *)
(* SAN is; no wildcard and no DNS entry makes it match.                    *)
(***************************************************************************)
C8_IpLiteralExactOnly ==
    (matched = <<TRUE>> /\ host \in IpLiteralHosts) =>
        \/ HasCN /\ cert.subject.CN = host
        \/ host \in IpNamesOffered

C8_Witness ==
    /\ matched = <<FALSE>>
    /\ host = Ip1
    /\ HasCN /\ cert.subject.CN = <<"*", ".", "1", ".", "1", ".", "1">>
    /\ sanEntries = <<[kind |-> "DNS", name |-> Ip1]>>

(***************************************************************************)
(* C9: verifyHostname returns true exactly when the Common Name covers the *)
(* host (the same string, or a one-label wildcard for a domain host) or an *)
(* entry of the SAN of the host's kind does (DNS for a domain host, IP     *)
(* Address for an IP literal); else false, also with no SAN at all.        *)
(***************************************************************************)
C9_VerifyHostnameIff ==
    matched # <<>> => (matched = <<TRUE>> <=> (CnCovers \/ SanCovers))

C9_Witness ==
    /\ matched = <<TRUE>>
    /\ ~CnCovers
    /\ Len(sanEntries) = 2
    /\ sanEntries[1].kind = "URI"
    /\ sanEntries[2].kind = "IPsp"

(***************************************************************************)
(* C10: when the fetcher fails with a CertificateError the first facade    *)
(* returns exactly { valid: false, error: the error's message, code: the   *)
(* error's code }, nothing of the normalized certificate in it; when the   *)
(* failure is any other error it returns { valid: false, error: the        *)
(* generic message } and no code.                                          *)
(***************************************************************************)
C10_CatchShape ==
    (Returned("getCertificateInfoV1") /\ promise.state = "rejected") =>
        /\ result.state = "fulfilled"
        /\ result.value.valid = FALSE
        /\ IF promise.value.name = "CertificateError"
           THEN /\ DOMAIN result.value = {"valid", "error", "code"}
                /\ result.value.error = promise.value.message
                /\ result.value.code = promise.value.code
           ELSE /\ DOMAIN result.value = {"valid", "error"}
                /\ result.value.error =
                      <<"An unexpected error occurred while retrieving the certificate.">>

C10_Witness ==
    /\ Returned("getCertificateInfoV1")
    /\ promise.state = "rejected"
    /\ promise.value.name = "Error"
    /\ DOMAIN result.value = {"valid", "error"}

(***************************************************************************)
(* C11: a getCertificate call whose port passes validation calls           *)
(* tls.connect once and never again, and whenever the call has settled     *)
(* with a socket opened (a certificate, MISSING_CERTIFICATE, TIMEOUT or a  *)
(* socket error) that socket has been ended or destroyed.                  *)
(***************************************************************************)
PassedPortValidation ==
    caller # "none" /\ ~Rejected(promise, "INVALID_PORT")

ErrorCameFirst == events # <<>> /\ events[1] = "error"

(***************************************************************************)
(* C12: when the socket's error is the first event and its code is one of  *)
(* the codes of CertificateErrorCode, getCertificate rejects with a        *)
(* CertificateError of that very code and the socket error's own message.  *)
(***************************************************************************)
C12_CatalogCodeKept ==
    (ErrorCameFirst /\ socketError.code \in CertificateErrorCode) =>
        /\ Rejected(promise, socketError.code)
        /\ promise.value.message = socketError.message
        /\ Returned("getCertificate") => result = promise

C12_Witness ==
    /\ Returned("getCertificate")
    /\ ErrorCameFirst
    /\ socketError.code = "CERT_HAS_EXPIRED"
    /\ options.rejectUnauthorized = Bool(TRUE)
    /\ Rejected(result, "CERT_HAS_EXPIRED")
    /\ result.value.message = <<"certificate has expired">>

(***************************************************************************)
(* C13: when the socket's error is the first event and its code is none of *)
(* the codes of CertificateErrorCode (no code at all, or a code such as    *)
(* ECONNREFUSED), getCertificate rejects with a CertificateError of code   *)
(* CERT_ERROR.                                                             *)
(***************************************************************************)
C13_UnknownCodeGeneric ==
    (ErrorCameFirst /\ socketError.code \notin CertificateErrorCode) =>
        Rejected(promise, "CERT_ERROR")

Milliseconds(d) == d.day * 86400000 + d.ms

CeilDiv(x, d) == IF x >= 0 THEN (x + d - 1) \div d ELSE -((-x) \div d)

Abs(x) == IF x < 0 THEN -x ELSE x

ValidFromMs == Milliseconds([day |-> cert.valid_from.day, ms |-> cert.valid_from.sec * 1000])

ValidToMs == Milliseconds([day |-> cert.valid_to.day, ms |-> cert.valid_to.sec * 1000])

Normalized ==
    caller \in {"convertPeerCertificate", "fromX509Certificate"} /\ Settled(result)

(***************************************************************************)
(* C15: whichever of validFrom and validTo is the later one, the record a  *)
(* normalization returns has daysTotal = ceil(|validTo - validFrom| /      *)
(* 86400000), a number that is never negative.                             *)
(***************************************************************************)
C15_DaysTotalAbsolute ==
    Normalized =>
        /\ result.value.daysTotal = CeilDiv(Abs(ValidToMs - ValidFromMs), 86400000)
        /\ result.value.daysTotal >= 0

(***************************************************************************)
(* C16: in the record convertPeerCertificate returns, daysLeft is          *)
(* ceil((validTo - now) / 86400000) for the instant it read, and a record  *)
(* with expired = true has daysLeft < 0.                                   *)
(***************************************************************************)
C16_ExpiredNegativeDaysLeft ==
    (caller = "convertPeerCertificate" /\ Settled(result)) =>
        /\ result.value.daysLeft =
              CeilDiv(ValidToMs - Milliseconds(clock[2]), 86400000)
        /\ result.value.expired => result.value.daysLeft < 0

\* the instant now is strictly after the date a certificate prints
Later(now, raw) == now.day > raw.day \/ (now.day = raw.day /\ now.ms > raw.sec * 1000)

Reported == Returned("getCertificateInfo") /\ result.state = "fulfilled"

(***************************************************************************)
(* C17: the report's expired field is true exactly when the instant the    *)
(* expiry rule read is strictly after validTo, and the embedded issuer's   *)
(* exactly when the instant its conversion read is strictly after the      *)
(* issuer's validTo; at the very instant of validTo neither is expired.    *)
(***************************************************************************)
C17_ExpiredIffAfterValidTo ==
    Reported =>
        /\ result.value.expired <=> Later(clock[Len(clock) - 1], cert.valid_to)
        /\ HasIssuerLink(cert) =>
              (result.value.issuerCertificate.expired
                  <=> Later(clock[3], IssuerOf(cert).valid_to))

C17_Witness ==
    /\ Reported
    /\ cert.valid_to = Day(10)
    /\ clock[Len(clock) - 1] = At(10, 0)
    /\ clock[Len(clock)] = At(10, 1)
    /\ ~result.value.expired
    /\ ~Has(result.value.errors, ExpiredError)

BothNamed == cert.subject # NoObject /\ cert.issuer # NoObject

BothCommonNames == BothNamed /\ cert.subject.CN # Absent /\ cert.issuer.CN # Absent

IsNearExpiryWarning(w) == Len(w) = 3 /\ w[1] = "Certificate expires in "

(***************************************************************************)
(* C19: the report has the warning "Certificate expires in N days" exactly *)
(* when it is not expired and 0 < daysLeft <= 30, and N is the report's    *)
(* daysLeft; no such warning has N <= 0 or N > 30.                         *)
(***************************************************************************)
C19_NearExpiryWarning ==
    Reported =>
        LET warnings == result.value.warnings
            daysLeft == result.value.daysLeft
        IN  /\ (\E i \in 1..Len(warnings) : IsNearExpiryWarning(warnings[i]))
                  <=> (~result.value.expired /\ 0 < daysLeft /\ daysLeft <= 30)
            /\ \A i \in 1..Len(warnings) :
                  IsNearExpiryWarning(warnings[i]) =>
                      /\ warnings[i][2] = daysLeft
                      /\ 0 < warnings[i][2]
                      /\ warnings[i][2] <= 30

(***************************************************************************)
(* C20: when the issuerCertificate link of the raw certificate leads back  *)
(* to the certificate itself, the report carries no issuerCertificate.     *)
(***************************************************************************)
C20_NoSelfIssuer ==
    (Reported /\ HasIssuerLink(cert) /\ cert.issuerCertificate = SelfIssued) =>
        result.value.issuerCertificate = Undefined

C23_ValidForEmptyWithoutSan ==
    (/\ caller = "convertPeerCertificate"
     /\ result.state = "fulfilled"
     /\ ~Truthy(cert.subjectaltname)) =>
        result.value.validFor = [list |-> <<>>]

\* an entry of the SAN list as the claim decodes it: a recognized prefix and
\* the whitespace after it removed, any other entry as it is printed
DecodedEntry(entry) ==
    IF entry.kind \in {"DNS", "IP", "IPsp"} THEN entry.name
    ELSE SanPrefix(entry.kind) \o entry.name

(***************************************************************************)
(* C24: validFor has one string per ", "-separated entry of the            *)
(* subjectaltname, in the same order, each without its "DNS:" or           *)
(* "IP Address:" prefix and without the whitespace that follows the        *)
(* prefix.                                                                 *)
(***************************************************************************)
C24_SanDecoded ==
    (/\ caller = "convertPeerCertificate"
     /\ result.state = "fulfilled"
     /\ sanEntries # <<>>) =>
        result.value.validFor =
            [list |-> [i \in 1..Len(sanEntries) |-> DecodedEntry(sanEntries[i])]]

IsLongValidityWarning(w) ==
    Len(w) = 3 /\ w[1] = "Certificate has an unusually long validity period: "

(***************************************************************************)
(* C25: a report whose daysTotal is above 398 has an "unusually long       *)
(* validity period" warning that names the day count; a report whose       *)
(* daysTotal is 398 or less has no such warning.                           *)
(***************************************************************************)
C25_LongValidityWarning ==
    Reported =>
        LET warnings == result.value.warnings
        IN  /\ result.value.daysTotal > 398 <=>
                  \E i \in 1..Len(warnings) : IsLongValidityWarning(warnings[i])
            /\ \A i \in 1..Len(warnings) :
                  IsLongValidityWarning(warnings[i]) =>
                      warnings[i][2] = result.value.daysTotal

IsWeakSignatureWarning(w) ==
    Len(w) = 2 /\ w[1] = "Certificate uses a weak signature algorithm: "

(***************************************************************************)
(* C26: a report of a certificate whose signature algorithm is one of the  *)
(* known weak ones (md5WithRSAEncryption, sha1WithRSAEncryption,           *)
(* md5WithRSA, sha1WithRSA) has a "weak signature algorithm" warning.      *)
(***************************************************************************)
C26_WeakSignatureWarning ==
    (/\ Reported
     /\ "signatureAlgorithm" \in DOMAIN cert
     /\ cert.signatureAlgorithm \in WEAK_SIGNATURE_ALGORITHMS) =>
        \E i \in 1..Len(result.value.warnings) :
            IsWeakSignatureWarning(result.value.warnings[i])

(***************************************************************************)
(* C27: nothing the call registered outlasts it. The first of the socket's *)
(* events settles the promise (secureConnect also ends the socket); after  *)
(* it neither the timeout callback nor a listener runs again: the only     *)
(* thing that may still happen on the socket is the peer closing it.       *)
(***************************************************************************)
C27_NothingOutlastsTheCall ==
    \A i \in 2..Len(events) :
        /\ Settled(promise)
        /\ events[i] \notin {"timeout", "error", "secureConnect"}

(***************************************************************************)
(* C28: every getCertificate call eventually settles, whatever the timeout *)
(* option (0 and undefined included), also when the peer neither completes *)
(* the handshake nor produces an error.                                    *)
(***************************************************************************)
C28_EventuallySettles == (caller = "getCertificate") ~> Settled(result)

(***************************************************************************)
(* C29: with a clock that does not go back between the normalizer's reads  *)
(* and the evaluator's, a report has expired = true exactly when its       *)
(* errors hold "Certificate has expired", and it never has the near-expiry *)
(* warning together with that error.                                       *)
(***************************************************************************)
C29_ExpiredMatchesError ==
    Reported =>
        LET errors == result.value.errors
            warnings == result.value.warnings
        IN  /\ result.value.expired <=> Has(errors, ExpiredError)
            /\ ~(/\ Has(errors, ExpiredError)
                 /\ \E i \in 1..Len(warnings) : IsNearExpiryWarning(warnings[i]))

\* the certificate expires between the normalizer's read and the rule's
C29_Witness ==
    /\ Reported
    /\ cert.valid_to = Day(10)
    /\ clock[1] = At(10, 0)
    /\ clock[Len(clock) - 1] = At(10, 1)
    /\ result.value.expired
    /\ Has(result.value.errors, ExpiredError)
    /\ \A i \in 1..Len(result.value.warnings) :
          ~IsNearExpiryWarning(result.value.warnings[i])

====
